---- MODULE Spec2Model ----
(***************************************************************************)
(* Model of the AIWA underwriting workflow (src/underwrite.py): the node   *)
(* router NodeRouter.determine_node, the request handler chat() with its   *)
(* post-response guards, and the offer calculator calculate_offer.         *)
(*                                                                         *)
(* A snapshot (the dict user_data / ud) is a function whose DOMAIN is the  *)
(* set of keys present in the dict.  JSON scalars are strings: "true",     *)
(* "false", "null", "" and opaque texts; businessName and loanPurpose are  *)
(* sequences of one-character strings (the code does substring matching on *)
(* them); gstnList is a sequence; totalGstns, currentGstnIndex and the     *)
(* financial fields are numbers.  Money amounts are integers in hundredths *)
(* of a lakh (15.00 lakhs is 1500) and interest rates are integers in      *)
(* hundredths of a percent (15.0 % is 1500).                               *)
(*                                                                         *)
(* chat() keeps no state between requests: the snapshot comes with the     *)
(* request.  Along one application the snapshot a request ends with is the *)
(* snapshot the next request supplies; a request that ends with status 500 *)
(* hands nothing back, so the supplied snapshot stays.  The answer of the  *)
(* text-generation step is an input: any dataExtracted over the fields of  *)
(* the specification's vocabulary.                                         *)
(***************************************************************************)
EXTENDS Integers, Sequences, FiniteSets, TLC

VARIABLES
    user_data,       \* the application snapshot handed in and handed back
    current_node,    \* what determine_node returned in the latest call
    llm_extracted,   \* parsed["dataExtracted"] as the text-generation step gave it
    dataExtracted,   \* parsed["dataExtracted"] as returned to the caller
    outcome,         \* how the latest request ended
    gstns_generated, \* how many GSTNs the latest request generated (0: none)
    branch_seen,     \* history: the values of isGSTRegistered in the snapshots routed so far
    persona_data,    \* the persona dict handed to calculate_offer
    offer,           \* the latest calculate_offer call: its mode flags and what it returned
    initial_offer,   \* history: what the latest initial-mode calculate_offer call returned
    originals_written, \* history: the original* keys calculate_offer calls have written so far
    calls            \* the chat() invocations in progress at the same time, each with its locals

offer_vars == <<persona_data, offer, initial_offer, originals_written>>

vars == <<user_data, current_node, llm_extracted, dataExtracted, outcome,
          gstns_generated, branch_seen, offer_vars, calls>>

\* ------------------------------------------------------------------ bounds

\* len(messages) ranges over 0..MaxMsgs
MaxMsgs == 2
\* number of keys in one response's dataExtracted (entity and financial steps)
MaxExtracted == 2

MsgCounts == 0..MaxMsgs

\* ------------------------------------------------------------- dict model

JTrue == "true"
JFalse == "false"
JNull == "null"

EmptyDict == [k \in {} |-> JNull]

\* keys whose values are character sequences or lists
SeqKeys == {"businessName", "gstnList", "loanPurpose"}
\* keys whose values are numbers
NumKeys == {"totalGstns", "currentGstnIndex", "vintage", "revenue",
            "operatingProfit", "monthlyEMI", "loanAmount",
            "originalApprovedAmount", "originalTenureMonths", "bureauScore"}

\* Python truthiness of d.get(k): absent, None, False, "", [] and 0 are falsy
Truthy(d, k) ==
    /\ k \in DOMAIN d
    /\ IF k \in SeqKeys THEN d[k] # <<>>
       ELSE IF k \in NumKeys THEN d[k] # 0
       ELSE d[k] \notin {JNull, JFalse, ""}

\* d.get(k) is None
IsNone(d, k) ==
    \/ k \notin DOMAIN d
    \/ (k \notin SeqKeys /\ k \notin NumKeys /\ d[k] = JNull)

\* d.update(e)
Update(d, e) == [k \in DOMAIN d \cup DOMAIN e |-> IF k \in DOMAIN e THEN e[k] ELSE d[k]]

\* d[k] = v
Put(d, k, v) == [x \in DOMAIN d \cup {k} |-> IF x = k THEN v ELSE d[x]]

\* d.pop(k, None) for every k in ks
Pop(d, ks) == [k \in DOMAIN d \ ks |-> d[k]]

\* {k: v for k, v in d.items() if k in ks}
Only(d, ks) == [k \in DOMAIN d \cap ks |-> d[k]]

\* no calculate_offer call has been made
NoOffer == [is_revised |-> FALSE, is_gstn_consent |-> FALSE, called |-> FALSE, ret |-> EmptyDict]

\* no chat() invocations are followed side by side
NoCalls == <<>>

NoOfferYet ==
    /\ persona_data = EmptyDict
    /\ offer = NoOffer
    /\ initial_offer = EmptyDict
    /\ originals_written = {}

\* ------------------------------------------------------------- node router

Nodes == {"NODE_ONBOARD", "NODE_GST_ENTITY", "NODE_NONGST_ENTITY",
          "NODE_FINANCIALS", "NODE_OFFER", "NODE_UPGRADE_DOCS",
          "NODE_REVISED_OFFER", "NODE_GSTN_CONSENT", "NODE_CLOSURE"}

\* the cascade of determine_node once the three branch tests are evaluated
node_of(ud, onboarding_open, gst_entity_open, nongst_entity_open) ==
    IF onboarding_open THEN "NODE_ONBOARD"
    ELSE IF gst_entity_open THEN "NODE_GST_ENTITY"
    ELSE IF nongst_entity_open THEN "NODE_NONGST_ENTITY"
    ELSE IF ~Truthy(ud, "financialsComplete") THEN "NODE_FINANCIALS"
    ELSE IF ~Truthy(ud, "offerGenerated") THEN "NODE_OFFER"
    ELSE IF Truthy(ud, "gstConsentUpgrade") /\ ~Truthy(ud, "allGstnsProcessed")
    THEN "NODE_GSTN_CONSENT"
    ELSE IF Truthy(ud, "allGstnsProcessed") /\ ~Truthy(ud, "gstnConsentOfferGenerated")
    THEN "NODE_GSTN_CONSENT"
    ELSE IF Truthy(ud, "upgradeWithDocs") /\ ~Truthy(ud, "docsUploaded")
    THEN "NODE_UPGRADE_DOCS"
    ELSE IF Truthy(ud, "docsUploaded") /\ ~Truthy(ud, "revisedOfferGenerated")
    THEN "NODE_REVISED_OFFER"
    ELSE "NODE_CLOSURE"

\* if not mobile or not otpVerified or not applicantName or isGSTRegistered is None
onboarding_open(ud) ==
    \/ ~Truthy(ud, "mobile")
    \/ ~Truthy(ud, "otpVerified")
    \/ ~Truthy(ud, "applicantName")
    \/ IsNone(ud, "isGSTRegistered")

\* faulty variant: the first message of a conversation is always sent to onboarding
determine_node_counting(ud, msg_count) ==
    [ret |-> node_of(ud,
                     msg_count <= 1 \/ onboarding_open(ud),
                     Truthy(ud, "isGSTRegistered") /\ ~Truthy(ud, "gstEntityComplete"),
                     ~Truthy(ud, "isGSTRegistered") /\ ~Truthy(ud, "nonGstEntityComplete")),
     ud |-> ud]

\* faulty variant: an undecided branch flag is read as "not registered"
determine_node_nonone(ud, msg_count) ==
    [ret |-> node_of(ud,
                     ~Truthy(ud, "mobile") \/ ~Truthy(ud, "otpVerified")
                         \/ ~Truthy(ud, "applicantName"),
                     Truthy(ud, "isGSTRegistered") /\ ~Truthy(ud, "gstEntityComplete"),
                     ~Truthy(ud, "isGSTRegistered") /\ ~Truthy(ud, "nonGstEntityComplete")),
     ud |-> ud]

\* faulty variant: onboarding as it was before the applicant name was added to it
determine_node_noname(ud, msg_count) ==
    [ret |-> node_of(ud,
                     ~Truthy(ud, "mobile") \/ ~Truthy(ud, "otpVerified")
                         \/ IsNone(ud, "isGSTRegistered"),
                     Truthy(ud, "isGSTRegistered") /\ ~Truthy(ud, "gstEntityComplete"),
                     ~Truthy(ud, "isGSTRegistered") /\ ~Truthy(ud, "nonGstEntityComplete")),
     ud |-> ud]

\* faulty variant: the unregistered branch waits for the registered branch's flag
determine_node_oneflag(ud, msg_count) ==
    [ret |-> node_of(ud,
                     onboarding_open(ud),
                     Truthy(ud, "isGSTRegistered") /\ ~Truthy(ud, "gstEntityComplete"),
                     ~Truthy(ud, "isGSTRegistered") /\ ~Truthy(ud, "gstEntityComplete")),
     ud |-> ud]

\* NodeRouter.determine_node(ud, msg_count): the node returned and the
\* snapshot as the call leaves it
determine_node(ud, msg_count) ==
    LET is_gst == Truthy(ud, "isGSTRegistered")
    IN [ret |-> node_of(ud,
                        onboarding_open(ud),
                        is_gst /\ ~Truthy(ud, "gstEntityComplete"),
                        ~is_gst /\ ~Truthy(ud, "nonGstEntityComplete")),
        ud |-> ud]

\* the value of the branch flag in a snapshot, if it is decided
branch_of(ud) == IF IsNone(ud, "isGSTRegistered") THEN {} ELSE {ud["isGSTRegistered"]}

\* -------------------------------------------- router over supplied snapshots

Absent == "(absent)"

\* the snapshots handed to the router: every combination of the fields it
\* reads, each absent, falsy or truthy
RouterInputs ==
    [mobile : {Absent, "", "9876543210"},
     otpVerified : {Absent, JFalse, JTrue},
     applicantName : {Absent, "Asha"},
     isGSTRegistered : {Absent, JNull, JFalse, JTrue},
     gstEntityComplete : {Absent, JFalse, JTrue},
     nonGstEntityComplete : {Absent, JTrue},
     financialsComplete : {Absent, JFalse, JTrue},
     offerGenerated : {Absent, JTrue},
     gstConsentUpgrade : {Absent, JTrue},
     allGstnsProcessed : {Absent, JTrue},
     gstnConsentOfferGenerated : {Absent, JTrue},
     upgradeWithDocs : {Absent, JTrue},
     docsUploaded : {Absent, JTrue},
     revisedOfferGenerated : {Absent, JTrue}]

Snapshot(r) == [k \in {x \in DOMAIN r : r[x] # Absent} |-> r[k]]

InitRouter ==
    /\ user_data \in {Snapshot(r) : r \in RouterInputs}
    /\ current_node = "none"
    /\ llm_extracted = EmptyDict
    /\ dataExtracted = EmptyDict
    /\ outcome = "init"
    /\ gstns_generated = 0
    /\ branch_seen = {}
    /\ NoOfferYet
    /\ calls = NoCalls

\* one call of determine_node on the snapshot, as chat() makes it
Route ==
    \E msg_count \in MsgCounts :
        LET r == determine_node(user_data, msg_count)
        IN /\ current_node = "none"
           /\ current_node' = r.ret
           /\ user_data' = r.ud
           /\ outcome' = "routed"
           /\ branch_seen' = branch_seen \cup branch_of(user_data)
           /\ UNCHANGED <<llm_extracted, dataExtracted, gstns_generated, offer_vars, calls>>

NextRouter == Route

SpecRouter == InitRouter /\ [][NextRouter]_vars

\* C1: determine_node depends on the snapshot alone: any two message counts
\* give the same node on the same snapshot, the call leaves the snapshot as
\* it was, and a second call returns what the first returned.
C1_RouterDependsOnSnapshotOnly ==
    \A m1, m2 \in MsgCounts :
        /\ determine_node(user_data, m1).ret = determine_node(user_data, m2).ret
        /\ determine_node(user_data, m1).ud = user_data
        /\ outcome = "routed" => current_node = determine_node(user_data, m1).ret

C1_Witness ==
    /\ outcome = "routed"
    /\ current_node = "NODE_REVISED_OFFER"
    /\ "gstConsentUpgrade" \in DOMAIN user_data

\* C2: determine_node is total: on every snapshot it returns one of the nine
\* node ids, and NODE_ONBOARD whenever isGSTRegistered is absent or None.
C2_RouterTotal ==
    \A m \in MsgCounts :
        /\ determine_node(user_data, m).ret \in Nodes
        /\ outcome = "routed" => current_node \in Nodes
        /\ ("isGSTRegistered" \notin DOMAIN user_data
             \/ user_data["isGSTRegistered"] = JNull)
           => determine_node(user_data, m).ret = "NODE_ONBOARD"

C2_Witness ==
    /\ outcome = "routed"
    /\ current_node = "NODE_ONBOARD"
    /\ "isGSTRegistered" \in DOMAIN user_data
    /\ user_data["isGSTRegistered"] = JNull
    /\ Truthy(user_data, "mobile")
    /\ Truthy(user_data, "otpVerified")
    /\ Truthy(user_data, "applicantName")
    /\ Truthy(user_data, "nonGstEntityComplete")
    /\ Truthy(user_data, "financialsComplete")

OnboardingDone(ud) ==
    /\ Truthy(ud, "mobile")
    /\ Truthy(ud, "otpVerified")
    /\ Truthy(ud, "applicantName")
    /\ "isGSTRegistered" \in DOMAIN ud
    /\ ud["isGSTRegistered"] # JNull

\* C3: the onboarding prefix is mandatory: determine_node returns a node
\* other than NODE_ONBOARD exactly when mobile, otpVerified and applicantName
\* are truthy and isGSTRegistered is not None, whatever later flags are set.
C3_OnboardingMandatory ==
    \A m \in MsgCounts :
        /\ (determine_node(user_data, m).ret # "NODE_ONBOARD") <=> OnboardingDone(user_data)
        /\ (outcome = "routed" /\ current_node # "NODE_ONBOARD") => OnboardingDone(user_data)

C3_Witness ==
    /\ outcome = "routed"
    /\ current_node = "NODE_ONBOARD"
    /\ "applicantName" \notin DOMAIN user_data
    /\ Truthy(user_data, "mobile")
    /\ Truthy(user_data, "otpVerified")
    /\ Truthy(user_data, "isGSTRegistered")
    /\ Truthy(user_data, "gstEntityComplete")
    /\ Truthy(user_data, "financialsComplete")
    /\ Truthy(user_data, "offerGenerated")

\* the entity-complete flag of the snapshot's own branch is truthy
OwnEntityComplete(ud) ==
    IF Truthy(ud, "isGSTRegistered")
    THEN Truthy(ud, "gstEntityComplete")
    ELSE Truthy(ud, "nonGstEntityComplete")

\* C5: both branches rejoin at Financials: with onboarding complete, the own
\* branch's entity flag truthy and financialsComplete falsy the node is
\* NODE_FINANCIALS; NODE_OFFER is returned only when the own entity flag and
\* financialsComplete are truthy and offerGenerated is falsy.
C5_RejoinAtFinancials ==
    \A m \in MsgCounts :
        LET node == determine_node(user_data, m).ret
        IN /\ (/\ OnboardingDone(user_data)
               /\ OwnEntityComplete(user_data)
               /\ ~Truthy(user_data, "financialsComplete"))
              => node = "NODE_FINANCIALS"
           /\ node = "NODE_OFFER"
              => /\ OwnEntityComplete(user_data)
                 /\ Truthy(user_data, "financialsComplete")
                 /\ ~Truthy(user_data, "offerGenerated")
           /\ outcome = "routed" => current_node = node

C5_Witness ==
    /\ outcome = "routed"
    /\ current_node = "NODE_FINANCIALS"
    /\ "isGSTRegistered" \in DOMAIN user_data
    /\ user_data["isGSTRegistered"] = JFalse
    /\ Truthy(user_data, "nonGstEntityComplete")
    /\ ~Truthy(user_data, "gstEntityComplete")

\* ------------------------------------------------------------------ texts

UpperToLower ==
    [A |-> "a", B |-> "b", C |-> "c", D |-> "d", E |-> "e", F |-> "f", G |-> "g",
     H |-> "h", I |-> "i", J |-> "j", K |-> "k", L |-> "l", M |-> "m", N |-> "n",
     O |-> "o", P |-> "p", Q |-> "q", R |-> "r", S |-> "s", T |-> "t", U |-> "u",
     V |-> "v", W |-> "w", X |-> "x", Y |-> "y", Z |-> "z"]

\* str.lower()
lower(s) == [i \in 1..Len(s) |-> IF s[i] \in DOMAIN UpperToLower THEN UpperToLower[s[i]] ELSE s[i]]

\* keyword in s
Contains(s, keyword) ==
    \E i \in 1..(Len(s) - Len(keyword) + 1) : SubSeq(s, i, i + Len(keyword) - 1) = keyword

kw_private_limited == <<"p","r","i","v","a","t","e"," ","l","i","m","i","t","e","d">>
kw_pvt_ltd == <<"p","v","t"," ","l","t","d">>
kw_pvt_dot_ltd == <<"p","v","t","."," ","l","t","d">>
kw_sp_limited == <<" ","l","i","m","i","t","e","d">>
kw_sp_ltd == <<" ","l","t","d">>
kw_sp_ltd_dot == <<" ","l","t","d",".">>
kw_llp == <<"l","l","p">>
kw_l_l_p == <<"l",".","l",".","p">>

\* mca_keywords of chat()
mca_keywords ==
    {kw_private_limited, kw_pvt_ltd, kw_pvt_dot_ltd, kw_sp_limited,
     kw_sp_ltd, kw_sp_ltd_dot, kw_llp, kw_l_l_p}

\* has_mca of chat(): any(keyword in business_name for keyword in mca_keywords)
has_mca(user_data_now) ==
    LET business_name ==
            lower(IF "businessName" \in DOMAIN user_data_now
                  THEN user_data_now["businessName"] ELSE <<>>)
    IN \E keyword \in mca_keywords : Contains(business_name, keyword)

\* business names the applicant may give
ABC_Traders == <<"A","B","C"," ","T","r","a","d","e","r","s">>
ABC_Pvt_Ltd == <<"A","B","C"," ","P","v","t"," ","L","t","d">>

\* ------------------------------------------------------ consent GSTN list

PERSONAS == {"growth_sme", "stressed_trader", "new_age_startup"}

\* random.choice([0, 1, 2])
AdditionalGstns == {0, 1, 2}

\* generate_gstn_list(primary_gstn): the primary GSTN and num_additional
\* generated ones (the generated texts stand for the random GSTN strings)
generate_gstn_list(primary_gstn, num_additional) ==
    <<primary_gstn>> \o [i \in 1..num_additional |-> IF i = 1 THEN "29GENER0001A1Z1" ELSE "24GENER0002B2Z2"]

\* faulty variant: generating the list also consumes the applicant's consent choice
init_gstn_list_consuming(ud, node, num_additional) ==
    IF node = "NODE_GSTN_CONSENT" /\ ~Truthy(ud, "gstnList")
    THEN LET primary_gstn == IF "gstn" \in DOMAIN ud THEN ud["gstn"] ELSE "27AAAAA0000A1Z0"
             gstn_list == generate_gstn_list(primary_gstn, num_additional)
         IN Update(ud, [gstnList |-> gstn_list,
                        totalGstns |-> Len(gstn_list),
                        currentGstnIndex |-> 0,
                        gstnListConfirmed |-> JFalse,
                        gstConsentUpgrade |-> JFalse])
    ELSE ud

\* the GSTN list initialisation of chat() on entering NODE_GSTN_CONSENT
init_gstn_list(ud, node, num_additional) ==
    IF node = "NODE_GSTN_CONSENT" /\ ~Truthy(ud, "gstnList")
    THEN LET primary_gstn == IF "gstn" \in DOMAIN ud THEN ud["gstn"] ELSE "27AAAAA0000A1Z0"
             gstn_list == generate_gstn_list(primary_gstn, num_additional)
         IN Update(ud, [gstnList |-> gstn_list,
                        totalGstns |-> Len(gstn_list),
                        currentGstnIndex |-> 0,
                        gstnListConfirmed |-> JFalse])
    ELSE ud

\* -------------------------------------------------- post-response guards

\* the state of the two dicts while the guards of chat() run
\* (ud: user_data, de: parsed["dataExtracted"])

\* guard 1 of NODE_GST_ENTITY: businessName extracted before gstn
guard_skip_gstn(st, extracted_keys) ==
    IF ~Truthy(st.ud, "gstn") /\ "businessName" \in extracted_keys
    THEN [ud |-> Pop(st.ud, {"businessName"}), de |-> Only(st.de, {"gstn"})]
    ELSE st

\* guard 2 of NODE_GST_ENTITY: industry extracted before businessName
guard_skip_name(st, extracted_keys) ==
    IF ~Truthy(st.ud, "businessName") /\ "industry" \in extracted_keys
    THEN [ud |-> Pop(st.ud, {"industry", "lineOfBusiness", "loanPurpose", "vintage", "revenue"}),
          de |-> EmptyDict]
    ELSE st

\* guard 3 of NODE_GST_ENTITY: MCA confirmation or CIN without MCA keywords
guard_cin(st, extracted_keys) ==
    IF has_mca(st.ud) THEN st
    ELSE LET a == IF "mcaConfirmation" \in extracted_keys
                  THEN [ud |-> Pop(Put(st.ud, "cinSkipped", JTrue), {"mcaConfirmation", "cin"}),
                        de |-> [cinSkipped |-> JTrue]]
                  ELSE st
         IN IF "cin" \in extracted_keys
            THEN [ud |-> Pop(Put(a.ud, "cinSkipped", JTrue), {"cin"}),
                  de |-> [cinSkipped |-> JTrue]]
            ELSE a

\* guard 4 of NODE_GST_ENTITY: CIN extracted after MCA registration was denied
guard_denied(st, extracted_keys) ==
    IF /\ "mcaConfirmation" \in DOMAIN st.ud
       /\ st.ud["mcaConfirmation"] = JFalse
       /\ "cin" \in extracted_keys
    THEN [ud |-> Pop(st.ud, {"cin"}), de |-> Pop(st.de, {"cin"})]
    ELSE st

required_order == <<"vintage", "revenue", "operatingProfit", "monthlyEMI", "loanAmount", "loanPurpose">>

\* guard of NODE_FINANCIALS: keep only the next field needed
guard_financials(st, extracted_keys) ==
    LET missing == {i \in 1..Len(required_order) : ~Truthy(st.ud, required_order[i])}
    IN IF missing = {} THEN st
       ELSE LET idx == CHOOSE i \in missing : \A j \in missing : i <= j
                future == {required_order[j] : j \in (idx + 1)..Len(required_order)} \cap extracted_keys
            IN IF required_order[idx] \in extracted_keys
               THEN [ud |-> Pop(st.ud, future), de |-> Pop(st.de, future)]
               ELSE st

\* the guards of chat() after user_data.update(parsed["dataExtracted"])
apply_guards(node, ud, de) ==
    LET st0 == [ud |-> ud, de |-> de]
        extracted_keys == DOMAIN de
    IN IF node = "NODE_GST_ENTITY"
       THEN guard_denied(guard_cin(guard_skip_name(guard_skip_gstn(st0, extracted_keys),
                                                   extracted_keys),
                                   extracted_keys),
                         extracted_keys)
       ELSE IF node = "NODE_FINANCIALS"
       THEN guard_financials(st0, extracted_keys)
       ELSE st0

\* SystemAnalyzer.analyze_and_trigger raises IndexError when a username is
\* extracted and currentGstnIndex is no index of gstnList
analyze_raises(data_extracted, ud) ==
    /\ "gstnUsername" \in DOMAIN data_extracted
    /\ LET gstn_list == IF "gstnList" \in DOMAIN ud THEN ud["gstnList"] ELSE <<>>
           idx == IF "currentGstnIndex" \in DOMAIN ud THEN ud["currentGstnIndex"] ELSE 0
       IN ~(0 - Len(gstn_list) <= idx /\ idx < Len(gstn_list))

\* build_system_prompt raises IndexError when the GSTN context indexes
\* gstn_list with an index below -len(gstn_list)
prompt_raises(node, ud) ==
    /\ node = "NODE_GSTN_CONSENT"
    /\ Truthy(ud, "gstnList")
    /\ LET idx == IF "currentGstnIndex" \in DOMAIN ud THEN ud["currentGstnIndex"] ELSE 0
       IN idx < 0 - Len(ud["gstnList"])

\* ------------------------------------------------------------------ chat()

\* user_data["_persona"] = persona_key
set_persona(ud) ==
    Put(ud, "_persona",
        IF "_persona" \in DOMAIN ud /\ ud["_persona"] \in PERSONAS
        THEN ud["_persona"] ELSE "growth_sme")

\* one request with a non-empty message list whose text-generation call
\* answered with the JSON object carrying llm as its dataExtracted
chat(ud_in, msg_count, llm, num_additional) ==
    LET ud1 == set_persona(ud_in)
        routed == determine_node(ud1, msg_count)
        node == routed.ret
        ud2 == init_gstn_list(routed.ud, node, num_additional)
        ud3 == Update(ud2, llm)
        g == apply_guards(node, ud3, llm)
        generated == IF node = "NODE_GSTN_CONSENT" /\ ~Truthy(routed.ud, "gstnList")
                     THEN 1 + num_additional ELSE 0
    IN IF prompt_raises(node, ud2) \/ analyze_raises(g.de, g.ud)
       THEN [outcome |-> "error", current_node |-> node, gstns_generated |-> generated,
             user_data |-> ud_in, dataExtracted |-> EmptyDict]
       ELSE [outcome |-> "ok", current_node |-> node, gstns_generated |-> generated,
             user_data |-> g.ud, dataExtracted |-> g.de]

\* the initial greeting: no messages yet, nothing is read or written
Greeting ==
    /\ outcome' = "greeting"
    /\ llm_extracted' = EmptyDict
    /\ dataExtracted' = EmptyDict
    /\ gstns_generated' = 0
    /\ UNCHANGED <<user_data, current_node, branch_seen, offer_vars, calls>>

\* the text-generation call failed or its answer held no JSON: status 500
ChatError ==
    \E msg_count \in MsgCounts \ {0} :
      \E node \in {determine_node(set_persona(user_data), msg_count).ret} :
        \E num_additional \in
              IF node = "NODE_GSTN_CONSENT" /\ ~Truthy(user_data, "gstnList")
              THEN AdditionalGstns ELSE {0} :
           /\ outcome' = "error"
           /\ current_node' = node
           /\ llm_extracted' = EmptyDict
           /\ dataExtracted' = EmptyDict
           /\ gstns_generated' =
                 IF node = "NODE_GSTN_CONSENT" /\ ~Truthy(user_data, "gstnList")
                 THEN 1 + num_additional ELSE 0
           /\ branch_seen' = branch_seen \cup branch_of(user_data)
           /\ UNCHANGED <<user_data, offer_vars, calls>>

\* a request answered by the text-generation step with one of Responses
Chat(Responses) ==
    \E msg_count \in MsgCounts \ {0}, llm \in Responses :
      \E num_additional \in
            IF determine_node(set_persona(user_data), msg_count).ret = "NODE_GSTN_CONSENT"
               /\ ~Truthy(user_data, "gstnList")
            THEN AdditionalGstns ELSE {0} :
        \E c \in {chat(user_data, msg_count, llm, num_additional)} :
           /\ outcome' = c.outcome
           /\ current_node' = c.current_node
           /\ user_data' = c.user_data
           /\ dataExtracted' = c.dataExtracted
           /\ llm_extracted' = llm
           /\ gstns_generated' = c.gstns_generated
           /\ branch_seen' = branch_seen \cup branch_of(user_data)
           /\ UNCHANGED <<offer_vars, calls>>

\* -------------------------------------------------------------- responses

\* the sets of at most n elements of S
SubsetsUpTo(S, n) ==
    LET RECURSIVE Up(_)
        Up(i) == IF i = 0 THEN {{}}
                 ELSE LET prev == Up(i - 1)
                      IN prev \cup {T \cup {x} : T \in prev, x \in S}
    IN Up(n)

\* the dict of a set of <<key, value>> pairs with distinct keys
DictOf(P) == [k \in {p[1] : p \in P} |-> (CHOOSE p \in P : p[1] = k)[2]]

\* the responses whose dataExtracted holds at most n of the fields of vocab
ResponsesOver(vocab, n) ==
    {DictOf(P) : P \in {Q \in SubsetsUpTo(vocab, n) :
                           \A p, q \in Q : p[1] = q[1] => p = q}}

Init ==
    /\ user_data = EmptyDict
    /\ current_node = "none"
    /\ llm_extracted = EmptyDict
    /\ dataExtracted = EmptyDict
    /\ outcome = "init"
    /\ gstns_generated = 0
    /\ branch_seen = {}
    /\ NoOfferYet
    /\ calls = NoCalls

\* ---------------------------------------------- branch flag (C4)

\* the onboarding answers, the branch flag in both values, the entity flags
BranchVocab ==
    {<<"mobile", "9876543210">>, <<"otpVerified", JTrue>>, <<"applicantName", "Asha">>,
     <<"isGSTRegistered", JTrue>>, <<"isGSTRegistered", JFalse>>,
     <<"gstEntityComplete", JTrue>>, <<"nonGstEntityComplete", JTrue>>}

BranchResponses == ResponsesOver(BranchVocab, 1)

NextBranch == Greeting \/ ChatError \/ Chat(BranchResponses)

SpecBranch == Init /\ [][NextBranch]_vars

\* C4: branch invariance: once isGSTRegistered has been set, the router
\* never returns the opposite branch's entity node (NODE_NONGST_ENTITY after
\* the flag was true, NODE_GST_ENTITY after it was false).
C4_BranchInvariance ==
    /\ JTrue \in branch_seen => current_node # "NODE_NONGST_ENTITY"
    /\ JFalse \in branch_seen => current_node # "NODE_GST_ENTITY"


\* ---------------------------------------------- phases of the flow (C6)

\* the registered branch up to closure through the document upgrade
FlowVocab ==
    {<<"mobile", "9876543210">>, <<"otpVerified", JTrue>>, <<"applicantName", "Asha">>,
     <<"isGSTRegistered", JTrue>>, <<"gstEntityComplete", JTrue>>,
     <<"financialsComplete", JTrue>>, <<"offerGenerated", JTrue>>,
     <<"upgradeWithDocs", JTrue>>, <<"docsUploaded", JTrue>>,
     <<"revisedOfferGenerated", JTrue>>}

FlowResponses == ResponsesOver(FlowVocab, 1)

NextFlow == Greeting \/ ChatError \/ Chat(FlowResponses)

SpecFlow == Init /\ [][NextFlow]_vars

\* Onboarding < Entity < Financials < Offer < Upgrade/Consent < Revised offer < Closure
Phase(node) ==
    CASE node = "none" -> 0
      [] node = "NODE_ONBOARD" -> 1
      [] node \in {"NODE_GST_ENTITY", "NODE_NONGST_ENTITY"} -> 2
      [] node = "NODE_FINANCIALS" -> 3
      [] node = "NODE_OFFER" -> 4
      [] node \in {"NODE_UPGRADE_DOCS", "NODE_GSTN_CONSENT"} -> 5
      [] node = "NODE_REVISED_OFFER" -> 6
      [] node = "NODE_CLOSURE" -> 7

\* C6: no completed step is revisited: the phase of the node returned by
\* determine_node never decreases from one call to the next.
C6_NoStepRevisited == [][Phase(current_node') >= Phase(current_node)]_vars

\* ---------------------------------------------- consent flow (C9)

\* the registered branch up to the consent flow
ConsentVocab ==
    {<<"mobile", "9876543210">>, <<"otpVerified", JTrue>>, <<"applicantName", "Asha">>,
     <<"isGSTRegistered", JTrue>>, <<"gstEntityComplete", JTrue>>,
     <<"financialsComplete", JTrue>>, <<"offerGenerated", JTrue>>,
     <<"gstConsentUpgrade", JTrue>>, <<"allGstnsProcessed", JTrue>>}

ConsentResponses == ResponsesOver(ConsentVocab, 1)

NextConsent == Greeting \/ ChatError \/ Chat(ConsentResponses)

SpecConsent == Init /\ [][NextConsent]_vars

\* C9: no silent auto-advance: after a call whose response extracted nothing,
\* determine_node on the resulting snapshot returns the node it returned at
\* the start of the call, also when the call generated the GSTN list.
C9_NoSilentAdvance ==
    (outcome = "ok" /\ llm_extracted = EmptyDict)
    => \A m \in MsgCounts : determine_node(user_data, m).ret = current_node

C9_Witness ==
    /\ outcome = "ok"
    /\ llm_extracted = EmptyDict
    /\ current_node = "NODE_GSTN_CONSENT"
    /\ gstns_generated = 3
    /\ Len(user_data["gstnList"]) = 3

\* ---------------------------------------------- entity step guards (C7, C8, C10)

\* onboarding on the registered branch and the entity fields the
\* skip-ahead guards of NODE_GST_ENTITY look at
EntityVocab ==
    {<<"mobile", "9876543210">>, <<"otpVerified", JTrue>>, <<"applicantName", "Asha">>,
     <<"isGSTRegistered", JTrue>>, <<"gstn", "27ABCDE1234F1Z5">>,
     <<"businessName", ABC_Traders>>, <<"industry", "Retail">>,
     <<"lineOfBusiness", "Grocery">>, <<"gstEntityComplete", JTrue>>}

EntityResponses == ResponsesOver(EntityVocab, MaxExtracted)

NextEntity == Greeting \/ ChatError \/ Chat(EntityResponses)

SpecEntity == Init /\ [][NextEntity]_vars

\* C7: monotonicity: a call that ends normally hands back a snapshot holding
\* every key of the snapshot it was given.
C7_Monotonic == [][outcome' = "ok" => DOMAIN user_data \subseteq DOMAIN user_data']_vars

\* nothing of the answer was kept: the skip-ahead guards emptied dataExtracted
AnswerRejected == llm_extracted # EmptyDict /\ dataExtracted = EmptyDict

\* C8: a rejected answer leaves the snapshot as it was supplied (but for the
\* persona default) and the node unchanged.
C8_RejectedLeavesSnapshot ==
    [][(outcome' = "ok" /\ AnswerRejected')
       => /\ user_data' = set_persona(user_data)
          /\ \A m \in MsgCounts : determine_node(user_data', m).ret = current_node']_vars

Has(ud, k) == k \in DOMAIN ud

\* C10: completion flags are derived: a truthy completion flag implies that
\* every field of its step is present.
C10_FlagsDerived ==
    /\ Truthy(user_data, "financialsComplete")
       => \A k \in {"vintage", "revenue", "operatingProfit", "monthlyEMI",
                    "loanAmount", "loanPurpose"} : Has(user_data, k)
    /\ Truthy(user_data, "nonGstEntityComplete")
       => \A k \in {"pan", "businessName", "industry", "lineOfBusiness"} : Has(user_data, k)
    /\ Truthy(user_data, "gstEntityComplete")
       => /\ \A k \in {"gstn", "businessName", "industry", "lineOfBusiness"} : Has(user_data, k)
          /\ Has(user_data, "udyam") \/ Has(user_data, "udyamSkipped")
          /\ Has(user_data, "cin") \/ Has(user_data, "cinSkipped")

\* ---------------------------------------------- company-ID sub-step (C11, C12)

\* onboarding on the registered branch, the GSTN, a business name without and
\* one with a corporate-suffix keyword, and the two company-ID answers; no
\* response carries cinSkipped, so a cinSkipped in the snapshot was set by
\* guard 3 of NODE_GST_ENTITY
CinVocab ==
    {<<"mobile", "9876543210">>, <<"otpVerified", JTrue>>, <<"applicantName", "Asha">>,
     <<"isGSTRegistered", JTrue>>, <<"gstn", "27ABCDE1234F1Z5">>,
     <<"businessName", ABC_Traders>>, <<"businessName", ABC_Pvt_Ltd>>,
     <<"mcaConfirmation", JTrue>>, <<"mcaConfirmation", JFalse>>,
     <<"cin", "U12345MH2020PTC123456">>}

CinResponses == ResponsesOver(CinVocab, 1)

NextCin == Greeting \/ ChatError \/ Chat(CinResponses)

SpecCin == Init /\ [][NextCin]_vars

\* the response tried to extract mcaConfirmation or cin in NODE_GST_ENTITY
\* for a business name without a corporate-suffix keyword
SkipForced ==
    /\ outcome = "ok"
    /\ current_node = "NODE_GST_ENTITY"
    /\ ~has_mca(user_data)
    /\ DOMAIN llm_extracted \cap {"mcaConfirmation", "cin"} # {}

\* C11: conditional skip: after such a call the snapshot holds cinSkipped =
\* true and neither mcaConfirmation nor cin, and the returned dataExtracted
\* is exactly {cinSkipped: true}.
C11_ConditionalSkip ==
    SkipForced
    => /\ Truthy(user_data, "cinSkipped")
       /\ DOMAIN user_data \cap {"mcaConfirmation", "cin"} = {}
       /\ dataExtracted = [cinSkipped |-> JTrue]

\* C12: a registered-branch snapshot whose businessName contains a
\* corporate-suffix keyword never holds a cinSkipped = true set by the guard
\* (no response of CinVocab sets cinSkipped, so every cinSkipped is the guard's).
C12_SubStepEntered ==
    (Truthy(user_data, "isGSTRegistered") /\ has_mca(user_data))
    => ~Truthy(user_data, "cinSkipped")

\* ------------------------------------------------------- calculate_offer

\* round(x, 2) of x = num / den hundredths, den > 0 (ties go to the even
\* neighbour; the amounts used here never tie)
round_half_even(num, den) ==
    LET q == num \div den
        rem == num % den
    IN IF 2 * rem < den THEN q
       ELSE IF 2 * rem > den THEN q + 1
       ELSE IF q % 2 = 0 THEN q ELSE q + 1

\* requested = float(user_data.get("loanAmount", 25))
requested_of(ud) == IF "loanAmount" \in DOMAIN ud THEN ud["loanAmount"] ELSE 2500

\* faulty variant: the document revision is taken from the requested amount
approved_amount_from_requested(ud, is_revised, is_gstn_consent) ==
    IF is_gstn_consent \/ is_revised
    THEN round_half_even(requested_of(ud) * 115, 100)
    ELSE round_half_even(requested_of(ud) * 60, 100)

\* approved_amount: 115 % of the requested amount (consent), 115 % of the
\* original approved amount (documents), 60 % of the requested amount (first)
approved_amount(ud, is_revised, is_gstn_consent) ==
    IF is_gstn_consent
    THEN round_half_even(requested_of(ud) * 115, 100)
    ELSE IF is_revised
    THEN IF "originalApprovedAmount" \in DOMAIN ud
         THEN round_half_even(ud["originalApprovedAmount"] * 115, 100)
         ELSE round_half_even(requested_of(ud) * 60 * 115, 100 * 100)
    ELSE round_half_even(requested_of(ud) * 60, 100)

\* faulty variant: the 700 tier starts above 700
base_rate_strict(persona) ==
    LET bureau_score == IF "bureauScore" \in DOMAIN persona THEN persona["bureauScore"] ELSE 650
    IN IF bureau_score >= 750 THEN 1500
       ELSE IF bureau_score > 700 THEN 1600
       ELSE IF bureau_score >= 650 THEN 1700
       ELSE 1800

\* the rate of the bureau score tier
base_rate(persona) ==
    LET bureau_score == IF "bureauScore" \in DOMAIN persona THEN persona["bureauScore"] ELSE 650
    IN IF bureau_score >= 750 THEN 1500
       ELSE IF bureau_score >= 700 THEN 1600
       ELSE IF bureau_score >= 650 THEN 1700
       ELSE 1800

\* interest_rate: the consent revision takes 50 basis points off, floor 10 %
interest_rate(persona, is_gstn_consent) ==
    IF is_gstn_consent
    THEN IF base_rate(persona) - 50 >= 1000 THEN base_rate(persona) - 50 ELSE 1000
    ELSE base_rate(persona)

kw_inventory == <<"i","n","v","e","n","t","o","r","y">>
kw_working_capital == <<"w","o","r","k","i","n","g"," ","c","a","p","i","t","a","l">>
kw_cash_management == <<"c","a","s","h"," ","m","a","n","a","g","e","m","e","n","t">>

\* faulty variant: the purpose is matched without .lower()
purpose_is_revolving_cased(ud) ==
    LET purpose == IF "loanPurpose" \in DOMAIN ud THEN ud["loanPurpose"] ELSE <<>>
    IN \E word \in {kw_inventory, kw_working_capital, kw_cash_management} :
          Contains(purpose, word)

\* any(word in purpose for word in [...]) on the lower-cased loanPurpose
purpose_is_revolving(ud) ==
    LET purpose == lower(IF "loanPurpose" \in DOMAIN ud THEN ud["loanPurpose"] ELSE <<>>)
    IN \E word \in {kw_inventory, kw_working_capital, kw_cash_management} :
          Contains(purpose, word)

\* the tenure tier of an approved amount
tenure_tier(amount) ==
    IF amount <= 1000 THEN 12 ELSE IF amount <= 2500 THEN 24 ELSE 36

\* faulty variant: a revision computes the tenure from its own amount
keeps_tenure_never(ud, is_revised, is_gstn_consent) == FALSE

\* faulty variant: a stored tenure is reused whenever the key is present
keeps_tenure_present(ud, is_revised, is_gstn_consent) ==
    (is_revised \/ is_gstn_consent) /\ "originalTenureMonths" \in DOMAIN ud

\* (is_revised or is_gstn_consent) and user_data.get("originalTenureMonths")
keeps_tenure(ud, is_revised, is_gstn_consent) ==
    (is_revised \/ is_gstn_consent) /\ Truthy(ud, "originalTenureMonths")

\* faulty variant: a revision derives the structure from the purpose again
keeps_loan_type_never(ud, is_revised, is_gstn_consent) == FALSE

\* (is_revised or is_gstn_consent) and user_data.get("originalLoanType")
keeps_loan_type(ud, is_revised, is_gstn_consent) ==
    (is_revised \/ is_gstn_consent) /\ Truthy(ud, "originalLoanType")

\* pow(1 + r, n) - 1 with r = interest_rate / 100 / 12 > -1 is zero exactly
\* when r = 0 or n = 0
emi_divisor_is_zero(rate, n) == rate = 0 \/ n = 0

\* faulty variant: the revolving limit is amortized like a term loan
monthly_payout_amortizing(amount, rate, is_revolving, tenure_months) ==
    [formula |-> "amortized", P |-> amount * 1000, rate |-> rate, n |-> tenure_months]

\* monthly_payout: round(approved_amount * 100000 * interest_rate / 100 / 12)
\* rupees of simple interest on a revolving limit (amount * 1000 rupees at
\* rate / 10000 a year), else the EMI of P = approved_amount * 100000 rupees
\* at r = interest_rate / 100 / 12 over n = tenure_months, kept as the
\* arguments of P * r * pow(1 + r, n) / (pow(1 + r, n) - 1)
monthly_payout(amount, rate, is_revolving, tenure_months) ==
    IF is_revolving
    THEN [formula |-> "interest", rupees |-> round_half_even(amount * rate, 120)]
    ELSE [formula |-> "amortized", P |-> amount * 1000, rate |-> rate, n |-> tenure_months]

\* calculate_offer(user_data, persona_data, is_revised, is_gstn_consent):
\* ret is the returned dict (a formatted text is the sequence of its literal
\* parts and the value it renders), user_data the snapshot as the call
\* leaves it, written the original* keys it
\* assigned, raised whether the EMI division raised ZeroDivisionError.
\* monthlyPayout names the formula used and its arguments: simple monthly
\* interest in rupees, or the amortization of P at the rate over n months.
calculate_offer(ud, persona, is_revised, is_gstn_consent) ==
    LET amount == approved_amount(ud, is_revised, is_gstn_consent)
        first_amount == ~is_gstn_consent /\ ~is_revised
        ud1 == IF first_amount THEN Put(ud, "originalApprovedAmount", amount) ELSE ud
        rate == interest_rate(persona, is_gstn_consent)
        keep_type == keeps_loan_type(ud1, is_revised, is_gstn_consent)
        is_revolving == IF keep_type THEN ud1["originalLoanType"] = "Revolving Credit"
                        ELSE purpose_is_revolving(ud1)
        loan_type == IF keep_type THEN ud1["originalLoanType"]
                     ELSE IF is_revolving THEN "Revolving Credit" ELSE "Term Loan"
        ud2 == IF keep_type THEN ud1 ELSE Put(ud1, "originalLoanType", loan_type)
        keep_tenure == keeps_tenure(ud2, is_revised, is_gstn_consent)
        tenure_months == IF is_revolving THEN 12
                         ELSE IF keep_tenure THEN ud2["originalTenureMonths"]
                         ELSE tenure_tier(amount)
        ud3 == IF ~is_revolving /\ ~keep_tenure
               THEN Put(ud2, "originalTenureMonths", tenure_months) ELSE ud2
        payout == monthly_payout(amount, rate, is_revolving, tenure_months)
        written == (IF first_amount THEN {"originalApprovedAmount"} ELSE {})
                   \cup (IF keep_type THEN {} ELSE {"originalLoanType"})
                   \cup (IF ~is_revolving /\ ~keep_tenure THEN {"originalTenureMonths"} ELSE {})
    IN IF ~is_revolving /\ emi_divisor_is_zero(rate, tenure_months)
       THEN [raised |-> TRUE, ret |-> EmptyDict, user_data |-> ud3, written |-> written]
       ELSE [raised |-> FALSE,
             ret |-> [approvedAmount |-> amount,
                      approvedAmountFormatted |-> <<"Rs", amount, " lakhs">>,
                      loanType |-> loan_type,
                      interestRate |-> rate,
                      tenureText |-> IF is_revolving THEN <<"Annual (renewal based)">>
                                     ELSE <<tenure_months, " months">>,
                      tenureMonths |-> tenure_months,
                      monthlyPayout |-> payout,
                      monthlyPayoutFormatted |-> <<"Rs", payout>>,
                      isRevolved |-> is_revolving],
             user_data |-> ud3, written |-> written]

\* one call of calculate_offer on the snapshot, in any of its modes
CalculateOffer ==
    \E is_revised \in BOOLEAN, is_gstn_consent \in BOOLEAN :
      \E c \in {calculate_offer(user_data, persona_data, is_revised, is_gstn_consent)} :
         /\ user_data' = c.user_data
         /\ offer' = [is_revised |-> is_revised, is_gstn_consent |-> is_gstn_consent,
                      called |-> TRUE, ret |-> c.ret]
         /\ outcome' = IF c.raised THEN "offer raised" ELSE "offer"
         /\ initial_offer' = IF ~is_revised /\ ~is_gstn_consent THEN c.ret ELSE initial_offer
         /\ originals_written' = originals_written \cup c.written
         /\ UNCHANGED <<persona_data, current_node, llm_extracted, dataExtracted,
                        gstns_generated, branch_seen, calls>>

\* ---------------------------------------------- offers of one application

Inventory_purchase == <<"I","n","v","e","n","t","o","r","y"," ","p","u","r","c","h","a","s","e">>
Working_Capital == <<"W","o","r","k","i","n","g"," ","C","a","p","i","t","a","l"," ","n","e","e","d","s">>
cash_management == <<"d","a","i","l","y"," ","c","a","s","h"," ","m","a","n","a","g","e","m","e","n","t">>
Machinery == <<"N","e","w"," ","m","a","c","h","i","n","e","r","y">>

\* the dicts holding key k with one of vals, or not holding it
Optional(k, vals) == {EmptyDict} \cup {[x \in {k} |-> v] : v \in vals}

\* an application that has reached the offer step on the unregistered branch
AtOffer ==
    [mobile |-> "9876543210", otpVerified |-> JTrue, applicantName |-> "Asha",
     isGSTRegistered |-> JFalse, nonGstEntityComplete |-> JTrue,
     financialsComplete |-> JTrue]

\* the snapshots handed to the first calculate_offer call: the amount and the
\* purpose absent or given, original* keys absent or left by an earlier client
OfferSnapshots ==
    {Update(Update(Update(Update(Update(AtOffer, a), p), oa), ot), om) :
        a \in Optional("loanAmount", {1234, 1600, 2500, 4000, 5000}),
        p \in Optional("loanPurpose", {Inventory_purchase, Working_Capital,
                                       cash_management, Machinery}),
        oa \in Optional("originalApprovedAmount", {1500, 2000}),
        ot \in Optional("originalLoanType", {"", "Revolving Credit", "Term Loan"}),
        om \in Optional("originalTenureMonths", {0, 36})}

\* persona dicts: the bureau scores of PERSONAS and the tier boundaries
OfferPersonas == Optional("bureauScore", {612, 649, 650, 699, 700, 705, 742, 749, 750})

InitOffer ==
    /\ user_data \in OfferSnapshots
    /\ persona_data \in OfferPersonas
    /\ current_node = "none"
    /\ llm_extracted = EmptyDict
    /\ dataExtracted = EmptyDict
    /\ outcome = "init"
    /\ gstns_generated = 0
    /\ branch_seen = {}
    /\ offer = NoOffer
    /\ initial_offer = EmptyDict
    /\ originals_written = {}
    /\ calls = NoCalls

\* calculate_offer applied once to each snapshot and persona
OfferOnce == outcome = "init" /\ CalculateOffer

NextOfferOnce == OfferOnce

SpecOfferOnce == InitOffer /\ [][NextOfferOnce]_vars

\* the applicant changes the requested amount or the purpose
OfferVocab ==
    {<<"loanAmount", 1600>>, <<"loanAmount", 5000>>,
     <<"loanPurpose", Inventory_purchase>>, <<"loanPurpose", Machinery>>}

OfferResponses == ResponsesOver(OfferVocab, 1)

\* calculate_offer calls in any order on one application at the offer step,
\* between requests that may change loanAmount or loanPurpose
NextOffer == Greeting \/ ChatError \/ Chat(OfferResponses) \/ CalculateOffer

\* the applications whose offers are followed over several calls
OfferSeqSnapshots ==
    {Update(Update(Update(Update(AtOffer, a), p), ot), om) :
        a \in Optional("loanAmount", {1667, 4167}),
        p \in Optional("loanPurpose", {Working_Capital}),
        ot \in Optional("originalLoanType", {"Revolving Credit"}),
        om \in Optional("originalTenureMonths", {36})}

InitOfferSeq ==
    /\ user_data \in OfferSeqSnapshots
    /\ persona_data \in Optional("bureauScore", {612, 742})
    /\ current_node = "none"
    /\ llm_extracted = EmptyDict
    /\ dataExtracted = EmptyDict
    /\ outcome = "init"
    /\ gstns_generated = 0
    /\ branch_seen = {}
    /\ offer = NoOffer
    /\ initial_offer = EmptyDict
    /\ originals_written = {}
    /\ calls = NoCalls

SpecOffer == InitOfferSeq /\ [][NextOffer]_vars

\* the latest call was a revision (document-based or consent-based) that
\* followed an initial call on the same snapshot
RevisionAfterInitial ==
    /\ outcome = "offer"
    /\ offer.is_revised \/ offer.is_gstn_consent
    /\ DOMAIN initial_offer # {}

\* C13: structural stability: every revision that follows an initial call
\* returns the loanType and the tenureMonths the initial call returned.
C13_StructuralStability ==
    RevisionAfterInitial
    => /\ offer.ret.loanType = initial_offer.loanType
       /\ offer.ret.tenureMonths = initial_offer.tenureMonths

\* a document revision of 9.60 lakhs to 11.04 lakhs keeps the 12 months
C13_Witness ==
    /\ RevisionAfterInitial
    /\ offer.is_revised /\ ~offer.is_gstn_consent
    /\ initial_offer.approvedAmount = 960
    /\ offer.ret.approvedAmount = 1104
    /\ offer.ret.loanType = "Term Loan"
    /\ offer.ret.tenureMonths = 12

\* C14: the first computed offer is what is persisted: once a calculate_offer
\* call has written originalApprovedAmount, originalLoanType or
\* originalTenureMonths, no later step alters or deletes the key.
C14_FirstOfferPersisted ==
    [][\A k \in originals_written :
          k \in DOMAIN user_data' /\ user_data'[k] = user_data[k]]_vars

\* ---------------------------------------------- one offer (C15 .. C20)

\* after a calculate_offer call the snapshot still holds the loanAmount and
\* the loanPurpose the call was given: the call writes original* keys only

\* a is num / den rounded to the nearest integer
IsRounded(a, num, den) == 2 * (a * den - num) <= den /\ 2 * (num - a * den) <= den

InitialMode == outcome = "offer" /\ ~offer.is_revised /\ ~offer.is_gstn_consent
ConsentMode == outcome = "offer" /\ offer.is_gstn_consent
DocumentMode == outcome = "offer" /\ offer.is_revised /\ ~offer.is_gstn_consent

\* the requested amount: loanAmount, 25 lakhs when the snapshot has none
Requested == IF "loanAmount" \in DOMAIN user_data THEN user_data["loanAmount"] ELSE 2500

\* C15: approved amount rule: 60 % of the requested amount in initial mode,
\* 115 % of the requested amount in consent mode (also when is_revised is
\* set), 115 % of originalApprovedAmount in document mode, each rounded to
\* two decimals.
C15_ApprovedAmount ==
    /\ InitialMode => IsRounded(offer.ret.approvedAmount, Requested * 60, 100)
    /\ ConsentMode => IsRounded(offer.ret.approvedAmount, Requested * 115, 100)
    /\ (DocumentMode /\ "originalApprovedAmount" \in DOMAIN user_data)
       => IsRounded(offer.ret.approvedAmount, user_data["originalApprovedAmount"] * 115, 100)

\* requested 25 with 15 approved at first gives 17.25 at the document revision
C15_Witness ==
    /\ DocumentMode
    /\ Requested = 2500
    /\ "originalApprovedAmount" \in DOMAIN user_data
    /\ user_data["originalApprovedAmount"] = 1500
    /\ offer.ret.approvedAmount = 1725

\* the purpose text of a snapshot names inventory, working capital or cash
\* management, in any letter case
NamesRevolvingPurpose(ud) ==
    /\ "loanPurpose" \in DOMAIN ud
    /\ \/ Contains(lower(ud["loanPurpose"]), kw_inventory)
       \/ Contains(lower(ud["loanPurpose"]), kw_working_capital)
       \/ Contains(lower(ud["loanPurpose"]), kw_cash_management)

\* C16: structure decision: a first computation (initial mode, or a revision
\* of a snapshot without a stored originalLoanType) returns Revolving Credit
\* with 12 months exactly when the purpose names inventory, working capital
\* or cash management, and Term Loan otherwise; a revision of a snapshot with
\* a stored originalLoanType returns the stored type whatever the purpose.
C16_StructureDecision ==
    [][outcome' = "offer"
       => LET stored == Truthy(user_data, "originalLoanType")
              revision == offer'.is_revised \/ offer'.is_gstn_consent
          IN /\ ~(revision /\ stored)
                => IF NamesRevolvingPurpose(user_data)
                   THEN /\ offer'.ret.loanType = "Revolving Credit"
                        /\ offer'.ret.tenureMonths = 12
                   ELSE offer'.ret.loanType = "Term Loan"
             /\ (revision /\ stored)
                => offer'.ret.loanType = user_data["originalLoanType"]]_vars

\* "Working Capital needs" at the first offer: Revolving Credit, 12 months
C16_Witness ==
    /\ InitialMode
    /\ "loanPurpose" \in DOMAIN user_data
    /\ user_data["loanPurpose"] = Working_Capital
    /\ offer.ret.loanType = "Revolving Credit"
    /\ offer.ret.tenureMonths = 12

\* C17: installment tenure: an initial-mode Term Loan gets 12 months up to
\* 10 lakhs approved, 24 months up to 25 lakhs and 36 months above, and every
\* later revision returns the tenure of the initial call, whatever tier the
\* revised amount is in.
C17_InstallmentTenure ==
    /\ (InitialMode /\ offer.ret.loanType = "Term Loan")
       => /\ offer.ret.approvedAmount <= 1000 => offer.ret.tenureMonths = 12
          /\ (offer.ret.approvedAmount > 1000 /\ offer.ret.approvedAmount <= 2500)
             => offer.ret.tenureMonths = 24
          /\ offer.ret.approvedAmount > 2500 => offer.ret.tenureMonths = 36
    /\ (RevisionAfterInitial /\ initial_offer.loanType = "Term Loan")
       => offer.ret.tenureMonths = initial_offer.tenureMonths

\* 25.00 lakhs approved at first (24 months), 28.75 lakhs after the documents
C17_Witness ==
    /\ RevisionAfterInitial
    /\ initial_offer.loanType = "Term Loan"
    /\ initial_offer.approvedAmount = 2500
    /\ offer.ret.approvedAmount = 2875
    /\ offer.ret.tenureMonths = 24

\* the bureau score of the persona, 650 when the persona has none
Score == IF "bureauScore" \in DOMAIN persona_data THEN persona_data["bureauScore"] ELSE 650

\* the rate of the first offer for the persona
FirstOfferRate ==
    CASE Score >= 750 -> 1500
      [] Score >= 700 /\ Score <= 749 -> 1600
      [] Score >= 650 /\ Score <= 699 -> 1700
      [] Score < 650 -> 1800

\* C18: rate rule: 15 % from a bureau score of 750, 16 % for 700..749, 17 %
\* for 650..699 and 18 % below; a consent revision returns that rate minus
\* 0.5 and at least 10 %; a document revision returns the first offer's rate.
C18_RateRule ==
    /\ InitialMode => offer.ret.interestRate = FirstOfferRate
    /\ ConsentMode => /\ offer.ret.interestRate = FirstOfferRate - 50
                      /\ offer.ret.interestRate >= 1000
    /\ DocumentMode => offer.ret.interestRate = FirstOfferRate

\* a consent revision at the lower edge of the 16 % tier
C18_Witness ==
    /\ ConsentMode
    /\ Score = 700
    /\ offer.ret.interestRate = 1550

\* C19: revision fallback: a revision of a snapshot without
\* originalTenureMonths returns, on the Term Loan path, the tenure tier of
\* the base amount (60 % of the requested amount), not of the revised amount.
C19_RevisionFallback ==
    [][(/\ outcome' = "offer"
        /\ offer'.is_revised \/ offer'.is_gstn_consent
        /\ ~offer'.ret.isRevolved
        /\ "originalTenureMonths" \notin DOMAIN user_data)
       => LET base == round_half_even(requested_of(user_data) * 60, 100)
          IN offer'.ret.tenureMonths =
                IF base <= 1000 THEN 12 ELSE IF base <= 2500 THEN 24 ELSE 36]_vars

\* C20: divisor safety: no call raises ZeroDivisionError, and on the Term
\* Loan path the rate that reaches the amortization is one of 15, 16, 17, 18
\* or those minus 0.5, hence positive, and n is not zero.
C20_DivisorSafety ==
    /\ outcome # "offer raised"
    /\ (outcome = "offer" /\ ~offer.ret.isRevolved)
       => /\ offer.ret.monthlyPayout.formula = "amortized"
          /\ offer.ret.monthlyPayout.rate \in {1500, 1600, 1700, 1800, 1450, 1550, 1650, 1750}
          /\ offer.ret.monthlyPayout.rate > 0
          /\ offer.ret.monthlyPayout.n # 0

\* a consent revision amortized over 36 months at 14.5 %
C20_Witness ==
    /\ ConsentMode
    /\ ~offer.ret.isRevolved
    /\ offer.ret.monthlyPayout.formula = "amortized"
    /\ offer.ret.monthlyPayout.rate = 1450
    /\ offer.ret.monthlyPayout.n = 36

\* C21: revolving payout: a Revolving Credit offer pays simple monthly
\* interest on the whole limit, approvedAmount x 100000 x interestRate / 100
\* / 12 rupees rounded to an integer, whatever the tenure; the amortizing
\* formula is used on the Term Loan path and only there.  (One hundredth
\* of a lakh is 1000 rupees and one hundredth of a percent is 1 / 10000, so
\* the rupees a month are approvedAmount x interestRate / 120.)
C21_RevolvingPayout ==
    outcome = "offer"
    => /\ offer.ret.isRevolved
          => /\ offer.ret.monthlyPayout.formula = "interest"
             /\ IsRounded(offer.ret.monthlyPayout.rupees,
                          offer.ret.approvedAmount * offer.ret.interestRate, 120)
       /\ ~offer.ret.isRevolved => offer.ret.monthlyPayout.formula = "amortized"

\* 14.19 lakhs at 17.5 %: 20693.75 rupees a month, returned as 20694
C21_Witness ==
    /\ ConsentMode
    /\ offer.ret.isRevolved
    /\ offer.ret.approvedAmount = 1419
    /\ offer.ret.interestRate = 1750
    /\ offer.ret.monthlyPayout.rupees = 20694

\* the fields of a first offer: amount, structure, rate, tenure and payout,
\* with their formatted texts
FirstOfferFields ==
    {"approvedAmount", "approvedAmountFormatted", "loanType", "interestRate",
     "tenureText", "tenureMonths", "monthlyPayout", "monthlyPayoutFormatted",
     "isRevolved"}

\* C22: every revision result (document-based or consent-based) reports the
\* percentage change of the approved amount versus the prior offer: it has a
\* field beyond those of a first offer.
C22_RevisionReportsChange ==
    (outcome = "offer" /\ (offer.is_revised \/ offer.is_gstn_consent))
    => /\ FirstOfferFields \subseteq DOMAIN offer.ret
       /\ DOMAIN offer.ret \ FirstOfferFields # {}

\* ---------------------------------------------- offers within chat() (C23)

\* the request just answered was routed to the offer step, the revision step
\* or the consent offer
AtOfferStep ==
    /\ outcome = "ok"
    /\ \/ current_node \in {"NODE_OFFER", "NODE_REVISED_OFFER"}
       \/ /\ current_node = "NODE_GSTN_CONSENT"
          /\ Truthy(user_data, "allGstnsProcessed")
          /\ "allGstnsProcessed" \notin DOMAIN llm_extracted

\* C23: whenever a request is routed to the offer step or a revision step,
\* chat() has called calculate_offer and merged its output fields into the
\* snapshot before responding.
C23_OfferComputedAtOfferStep ==
    AtOfferStep
    => /\ offer.called
       /\ {"approvedAmount", "loanType", "interestRate", "tenureMonths",
           "monthlyPayout"} \subseteq DOMAIN user_data

\* ---------------------------------------------- revision and closure (C24)

\* an upgrade was chosen and is not finished, or its revised offer is due
UpgradePending(ud) ==
    \/ Truthy(ud, "gstConsentUpgrade") /\ ~Truthy(ud, "allGstnsProcessed")
    \/ Truthy(ud, "allGstnsProcessed") /\ ~Truthy(ud, "gstnConsentOfferGenerated")
    \/ Truthy(ud, "upgradeWithDocs") /\ ~Truthy(ud, "docsUploaded")
    \/ Truthy(ud, "docsUploaded") /\ ~Truthy(ud, "revisedOfferGenerated")

\* C24: revision only after the upgrade path: determine_node returns
\* NODE_REVISED_OFFER only for snapshots with upgradeWithDocs, docsUploaded
\* and offerGenerated truthy, and NODE_CLOSURE only when offerGenerated is
\* truthy and no upgrade or revision is pending.
C24_RevisionOnlyAfterUpgrade ==
    outcome = "routed"
    => /\ current_node = "NODE_REVISED_OFFER"
          => /\ Truthy(user_data, "upgradeWithDocs")
             /\ Truthy(user_data, "docsUploaded")
             /\ Truthy(user_data, "offerGenerated")
       /\ current_node = "NODE_CLOSURE"
          => /\ Truthy(user_data, "offerGenerated")
             /\ ~UpgradePending(user_data)

\* ---------------------------------------------- downstream triggers (C25)

\* the consent flow with the portal username of the GSTN being authenticated
\* and the index moving on to the next GSTN
TriggerVocab ==
    ConsentVocab \cup {<<"gstnUsername", "user1">>, <<"currentGstnIndex", 1>>}

TriggerResponses == ResponsesOver(TriggerVocab, 1)

NextTrigger == Greeting \/ ChatError \/ Chat(TriggerResponses)

SpecTrigger == Init /\ [][NextTrigger]_vars

\* C25: downstream triggers are cosmetic: process_request and
\* analyze_and_trigger never raise on what chat() hands them, so a request
\* whose text-generation step answered with a dataExtracted ends with that
\* response and not with an error.
C25_TriggersCosmetic ==
    llm_extracted # EmptyDict => outcome # "error"

\* ---------------------------------------------- the outbound message (C27)

Digits == {"0", "1", "2", "3", "4", "5", "6", "7", "8", "9"}

Uppers == DOMAIN UpperToLower

\* ^[A-Z]{5}[0-9]{4}[A-Z]$
PAN_REGEX(s) ==
    /\ Len(s) = 10
    /\ \A i \in 1..5 : s[i] \in Uppers
    /\ \A i \in 6..9 : s[i] \in Digits
    /\ s[10] \in Uppers

\* ^[0-9]{2}[A-Z]{5}[0-9]{4}[A-Z][A-Z0-9]Z[A-Z0-9]$
GSTN_REGEX(s) ==
    /\ Len(s) = 15
    /\ \A i \in 1..2 : s[i] \in Digits
    /\ \A i \in 3..7 : s[i] \in Uppers
    /\ \A i \in 8..11 : s[i] \in Digits
    /\ s[12] \in Uppers
    /\ s[13] \in Uppers \cup Digits
    /\ s[14] = "Z"
    /\ s[15] \in Uppers \cup Digits

\* ^[6-9][0-9]{9}$
MOBILE_REGEX(s) ==
    /\ Len(s) = 10
    /\ s[1] \in {"6", "7", "8", "9"}
    /\ \A i \in 2..10 : s[i] \in Digits

\* some substring of s has the shape of a mobile number
mobile_shaped(s) ==
    \E i \in 1..(Len(s) - 9) : MOBILE_REGEX(SubSeq(s, i, i + 9))

\* some substring of s has the shape of a PAN or of a GSTN
tax_id_shaped(s) ==
    \/ \E i \in 1..(Len(s) - 9) : PAN_REGEX(SubSeq(s, i, i + 9))
    \/ \E i \in 1..(Len(s) - 14) : GSTN_REGEX(SubSeq(s, i, i + 14))

Please_continue == <<"P","l","e","a","s","e"," ","c","o","n","t","i","n","u","e",".">>
Thank_you == <<"T","h","a","n","k"," ","y","o","u","."," ","M","o","v","i","n","g"," ","f","o","r","w","a","r","d"," ","w","i","t","h"," ","y","o","u","r"," ","a","p","p","l","i","c","a","t","i","o","n",".">>

\* texts the text-generation step may put in "message"
Msg_plain == <<"T","h","a","n","k","s",","," ","n","o","t","e","d",".">>
Msg_mobile == <<"O","T","P"," ","s","e","n","t"," ","t","o"," ","9","8","7","6","5","4","3","2","1","0">>
Msg_gstn == <<"G","S","T","N"," ","2","7","A","B","C","D","E","1","2","3","4","F","1","Z","5"," ","v","e","r","i","f","i","e","d">>

LlmMessages ==
    {[present |-> FALSE, text |-> <<>>]}
    \cup {[present |-> TRUE, text |-> t] : t \in {Msg_plain, Msg_mobile, Msg_gstn}}

\* parsed["message"] as chat() returns it: the default when the key is
\* missing, the fixed text when the CIN guard forced the skip, else the
\* text of the text-generation step
outbound_message(node, ud3, llm, message) ==
    LET extracted_keys == DOMAIN llm
        st2 == guard_skip_name(guard_skip_gstn([ud |-> ud3, de |-> llm], extracted_keys),
                               extracted_keys)
    IN IF /\ node = "NODE_GST_ENTITY"
          /\ ~has_mca(st2.ud)
          /\ extracted_keys \cap {"mcaConfirmation", "cin"} # {}
       THEN Thank_you
       ELSE IF message.present THEN message.text ELSE Please_continue

\* ---------------------------------------------- concurrent requests (C26)

\* chat() runs once per request; user_data, current_node and parsed are
\* locals of the invocation, and the module-level PERSONAS, NODE_PROMPTS and
\* regex constants are only read.  Two invocations are followed through
\* their two halves, before and after the text-generation call during which
\* the other invocation may run.

Invocations == {1, 2}

AtEntity ==
    [mobile |-> "9876543210", otpVerified |-> JTrue, applicantName |-> "Asha",
     isGSTRegistered |-> JTrue]

AtFinancials ==
    [mobile |-> "9123456780", otpVerified |-> JTrue, applicantName |-> "Ravi",
     isGSTRegistered |-> JFalse, nonGstEntityComplete |-> JTrue]

AtConsent ==
    [mobile |-> "9000000001", otpVerified |-> JTrue, applicantName |-> "Meera",
     isGSTRegistered |-> JTrue, gstn |-> "27ABCDE1234F1Z5", gstEntityComplete |-> JTrue,
     financialsComplete |-> JTrue, offerGenerated |-> JTrue, gstConsentUpgrade |-> JTrue]

\* the snapshots the two requests carry
ConcurrentSnapshots == {EmptyDict, AtEntity, AtFinancials, AtConsent}

ConcurrentVocab ==
    {<<"mobile", "9876543210">>, <<"businessName", ABC_Traders>>,
     <<"revenue", 120>>, <<"allGstnsProcessed", JTrue>>,
     <<"gstnUsername", "user1">>, <<"cin", "U12345MH2020PTC123456">>}

ConcurrentResponses == ResponsesOver(ConcurrentVocab, 1)

\* an invocation that has just received its request
Received(ud) ==
    [pc |-> "received", input |-> ud, user_data |-> ud, current_node |-> "none",
     msg_count |-> 0, num_additional |-> 0, llm |-> EmptyDict, outcome |-> "none",
     dataExtracted |-> EmptyDict, message |-> <<>>, overlapped |-> FALSE]

InitConcurrent ==
    /\ \E a \in ConcurrentSnapshots : \E b \in ConcurrentSnapshots \ {a} :
          calls = <<Received(a), Received(b)>>
    /\ user_data = EmptyDict
    /\ current_node = "none"
    /\ llm_extracted = EmptyDict
    /\ dataExtracted = EmptyDict
    /\ outcome = "init"
    /\ gstns_generated = 0
    /\ branch_seen = {}
    /\ NoOfferYet

\* faulty variant: user_data and current_node are kept in module-level
\* variables, which the invocation that started last has overwritten
locals_shared(cs, i) ==
    IF cs[3 - i].pc = "waiting" /\ cs[i].overlapped THEN cs[3 - i] ELSE cs[i]

\* the locals that invocation i reads after the text-generation call
locals(cs, i) == cs[i]

\* chat() up to the text-generation call: persona, node, GSTN list, prompt
Begin(i) ==
    /\ calls[i].pc = "received"
    /\ \E msg_count \in MsgCounts \ {0} :
         \E routed \in {determine_node(set_persona(calls[i].input), msg_count)} :
           \E num_additional \in
                 IF routed.ret = "NODE_GSTN_CONSENT" /\ ~Truthy(routed.ud, "gstnList")
                 THEN AdditionalGstns ELSE {0} :
              LET node == routed.ret
                  ud2 == init_gstn_list(routed.ud, node, num_additional)
              IN calls' = [calls EXCEPT ![i] =
                    IF prompt_raises(node, ud2)
                    THEN [@ EXCEPT !.pc = "done", !.outcome = "error",
                                   !.current_node = node, !.msg_count = msg_count,
                                   !.num_additional = num_additional]
                    ELSE [@ EXCEPT !.pc = "waiting", !.user_data = ud2,
                                   !.current_node = node, !.msg_count = msg_count,
                                   !.num_additional = num_additional,
                                   !.overlapped = calls[3 - i].pc = "waiting"]]
    /\ UNCHANGED <<user_data, current_node, llm_extracted, dataExtracted, outcome,
                   gstns_generated, branch_seen, offer_vars>>

\* chat() from the answer of the text-generation call to the response
Answer(i) ==
    /\ calls[i].pc = "waiting"
    /\ \E llm \in ConcurrentResponses, message \in LlmMessages :
         LET mine == locals(calls, i)
             ud3 == Update(mine.user_data, llm)
             g == apply_guards(mine.current_node, ud3, llm)
         IN calls' = [calls EXCEPT ![i] =
               IF analyze_raises(g.de, g.ud)
               THEN [@ EXCEPT !.pc = "done", !.outcome = "error", !.llm = llm,
                              !.user_data = calls[i].input, !.current_node = mine.current_node]
               ELSE [@ EXCEPT !.pc = "done", !.outcome = "ok", !.llm = llm,
                              !.user_data = g.ud, !.dataExtracted = g.de,
                              !.current_node = mine.current_node,
                              !.message = outbound_message(mine.current_node, ud3,
                                                           llm, message)]]
    /\ UNCHANGED <<user_data, current_node, llm_extracted, dataExtracted, outcome,
                   gstns_generated, branch_seen, offer_vars>>

NextConcurrent == \E i \in Invocations : Begin(i) \/ Answer(i)

SpecConcurrent == InitConcurrent /\ [][NextConcurrent]_vars

C27_MessageRedacted ==
    \A i \in DOMAIN calls :
       calls[i].pc = "done" /\ calls[i].outcome = "ok"
       => ~mobile_shaped(calls[i].message) /\ ~tax_id_shaped(calls[i].message)

\* ---------------------------------------------- mobile number check (C28)

\* the characters of the mobile values of the model
spelling ==
    ("9876543210" :> <<"9","8","7","6","5","4","3","2","1","0">>)
    @@ ("12345" :> <<"1","2","3","4","5">>)

\* onboarding with a mobile value that matches MOBILE_REGEX and one that
\* does not
MobileVocab ==
    {<<"mobile", "9876543210">>, <<"mobile", "12345">>, <<"otpVerified", JTrue>>,
     <<"applicantName", "Asha">>, <<"isGSTRegistered", JTrue>>,
     <<"isGSTRegistered", JFalse>>, <<"gstEntityComplete", JTrue>>}

MobileResponses == ResponsesOver(MobileVocab, MaxExtracted)

NextMobile == Greeting \/ ChatError \/ Chat(MobileResponses)

SpecMobile == Init /\ [][NextMobile]_vars

\* C28: a mobile value that is not a 10-digit string with first digit 6-9
\* is never stored in the snapshot.
C28_InvalidMobileNotStored ==
    "mobile" \in DOMAIN user_data => MOBILE_REGEX(spelling[user_data["mobile"]])

\* ---------------------------------------------- financial step guard (C29)

\* the unregistered branch up to the financial step, and the first four
\* financial fields (an applicant without loans reports a monthly EMI of 0)
FinancialsVocab ==
    {<<"mobile", "9876543210">>, <<"otpVerified", JTrue>>, <<"applicantName", "Asha">>,
     <<"isGSTRegistered", JFalse>>, <<"nonGstEntityComplete", JTrue>>,
     <<"vintage", 5>>, <<"revenue", 120>>, <<"operatingProfit", 20>>,
     <<"monthlyEMI", 0>>}

FinancialsResponses == ResponsesOver(FinancialsVocab, MaxExtracted)

NextFinancials == Greeting \/ ChatError \/ Chat(FinancialsResponses)

SpecFinancials == Init /\ [][NextFinancials]_vars

\* the positions of required_order whose field the snapshot still lacks
Needed(ud) == {i \in 1..Len(required_order) : ~Truthy(ud, required_order[i])}

\* C29: in NODE_FINANCIALS, when the response extracts the next field the
\* supplied snapshot needs together with later fields of required_order,
\* every later extracted field is absent from dataExtracted and from the
\* snapshot after the call.
C29_FinancialSkipAhead ==
    [][(outcome' = "ok" /\ current_node' = "NODE_FINANCIALS" /\ Needed(user_data) # {})
       => LET idx == CHOOSE i \in Needed(user_data) : \A j \in Needed(user_data) : i <= j
          IN required_order[idx] \in DOMAIN llm_extracted'
             => \A j \in (idx + 1)..Len(required_order) :
                   required_order[j] \in DOMAIN llm_extracted'
                   => /\ required_order[j] \notin DOMAIN dataExtracted'
                      /\ required_order[j] \notin DOMAIN user_data']_vars

\* ---------------------------------------------- entity field order (C30)

\* the tax ID of the branch the snapshot is on
tax_id_key(ud) == IF Truthy(ud, "isGSTRegistered") THEN "gstn" ELSE "pan"

\* C30: in every snapshot reached from the empty one, businessName is
\* present only with the branch's tax ID, and industry or lineOfBusiness
\* only with businessName.
C30_EntityFieldOrder ==
    /\ Has(user_data, "businessName") => Has(user_data, tax_id_key(user_data))
    /\ Has(user_data, "industry") \/ Has(user_data, "lineOfBusiness")
       => Has(user_data, "businessName")

\* ---------------------------------------------- corporate-suffix decision (C31)

kw_limited == <<"l","i","m","i","t","e","d">>

\* mca_keywords of the next-missing-field hint of build_system_prompt
mca_keywords_hint ==
    {kw_private_limited, kw_pvt_ltd, kw_pvt_dot_ltd, kw_limited,
     kw_sp_ltd, kw_sp_ltd_dot, kw_llp, kw_l_l_p}

\* has_mca of the next-missing-field hint of build_system_prompt
has_mca_hint(user_data_now) ==
    LET business_name ==
            lower(IF "businessName" \in DOMAIN user_data_now
                  THEN user_data_now["businessName"] ELSE <<>>)
    IN \E keyword \in mca_keywords_hint : Contains(business_name, keyword)

\* mca_keywords of the MCA check context of build_system_prompt
mca_keywords_context ==
    {kw_private_limited, kw_pvt_ltd, kw_pvt_dot_ltd, kw_sp_limited,
     kw_sp_ltd, kw_sp_ltd_dot, kw_llp, kw_l_l_p}

\* has_mca of the MCA check context of build_system_prompt
has_mca_context(user_data_now) ==
    LET business_name ==
            IF "businessName" \in DOMAIN user_data_now
            THEN user_data_now["businessName"] ELSE <<>>
        business_name_lower == lower(business_name)
    IN \E keyword \in mca_keywords_context : Contains(business_name_lower, keyword)

Unlimited_Foods == <<"U","n","l","i","m","i","t","e","d"," ","F","o","o","d","s">>

\* the registered branch up to the company-ID sub-step, with a name without
\* a keyword, a name with one, and a name holding "limited" inside a word
SuffixVocab ==
    {<<"mobile", "9876543210">>, <<"otpVerified", JTrue>>, <<"applicantName", "Asha">>,
     <<"isGSTRegistered", JTrue>>, <<"gstn", "27ABCDE1234F1Z5">>,
     <<"businessName", ABC_Traders>>, <<"businessName", ABC_Pvt_Ltd>>,
     <<"businessName", Unlimited_Foods>>, <<"udyamSkipped", JTrue>>,
     <<"industry", "Retail">>, <<"lineOfBusiness", "Grocery">>}

SuffixResponses == ResponsesOver(SuffixVocab, 1)

NextSuffix == Greeting \/ ChatError \/ Chat(SuffixResponses)

SpecSuffix == Init /\ [][NextSuffix]_vars

\* C31: for the business name of every snapshot, the hint, the check context
\* and the post-response guard decide the corporate suffix alike.
C31_SuffixDecisionSame ==
    /\ has_mca_hint(user_data) = has_mca_context(user_data)
    /\ has_mca_context(user_data) = has_mca(user_data)

\* ---------------------------------------------- consent flow and branch (C32)

\* isGSTRegistered is falsy and not None
Unregistered(ud) ==
    /\ "isGSTRegistered" \in DOMAIN ud
    /\ ~IsNone(ud, "isGSTRegistered")
    /\ ~Truthy(ud, "isGSTRegistered")

\* C32: determine_node never returns NODE_GSTN_CONSENT for a snapshot of the
\* unregistered branch, whatever gstConsentUpgrade and allGstnsProcessed hold.
C32_NoConsentFlowUnregistered ==
    (outcome = "routed" /\ Unregistered(user_data)) => current_node # "NODE_GSTN_CONSENT"

\* ---------------------------------------------- GSTN index (C33)

\* C33: a call whose response extracts gstnUsername does not fail, and
\* currentGstnIndex is an index of gstnList when analyze_and_trigger reads
\* the current GSTN.
C33_GstnIndexInBounds ==
    "gstnUsername" \in DOMAIN llm_extracted
    => /\ outcome = "ok"
       /\ "gstnList" \in DOMAIN user_data
       /\ "currentGstnIndex" \in DOMAIN user_data
       /\ 0 <= user_data["currentGstnIndex"]
       /\ user_data["currentGstnIndex"] < Len(user_data["gstnList"])

\* ---------------------------------------------- consent-flow initialisation (C34)

\* a registered application that has received its first offer
AfterOffer ==
    [mobile |-> "9876543210", otpVerified |-> JTrue, applicantName |-> "Asha",
     isGSTRegistered |-> JTrue, gstn |-> "27ABCDE1234F1Z5", gstEntityComplete |-> JTrue,
     financialsComplete |-> JTrue, offerGenerated |-> JTrue]

\* the list the applicant gives in place of the generated one
Own_list == <<"27ABCDE1234F1Z5", "29ABCDE1234F1Z5">>

\* what the consent prompt asks the text-generation step to extract
GstnListVocab ==
    {<<"gstConsentUpgrade", JTrue>>, <<"gstnListConfirmed", JTrue>>,
     <<"gstnList", Own_list>>, <<"totalGstns", 2>>,
     <<"currentGstnIndex", 0>>, <<"currentGstnIndex", 1>>,
     <<"gstnOtp", "123456">>, <<"allGstnsProcessed", JTrue>>}

GstnListResponses == ResponsesOver(GstnListVocab, MaxExtracted)

InitGstnList ==
    /\ user_data = AfterOffer
    /\ current_node = "none"
    /\ llm_extracted = EmptyDict
    /\ dataExtracted = EmptyDict
    /\ outcome = "init"
    /\ gstns_generated = 0
    /\ branch_seen = {}
    /\ NoOfferYet
    /\ calls = NoCalls

NextGstnList == Greeting \/ ChatError \/ Chat(GstnListResponses)

SpecGstnList == InitGstnList /\ [][NextGstnList]_vars

\* C34: the first call routed to NODE_GSTN_CONSENT leaves a generated list
\* of 1 to 3 GSTNs headed by the primary gstn, with totalGstns its length,
\* currentGstnIndex 0 and gstnListConfirmed false; a call on a snapshot
\* with a list generates none; totalGstns is the length of gstnList in
\* every snapshot.
C34_ConsentInitialisation ==
    [][outcome' = "ok"
       => /\ (current_node' = "NODE_GSTN_CONSENT" /\ ~Truthy(user_data, "gstnList"))
             => /\ Truthy(user_data', "gstnList")
                /\ user_data'["gstnList"][1] = user_data["gstn"]
                /\ Len(user_data'["gstnList"]) \in 1..3
                /\ user_data'["currentGstnIndex"] = 0
                /\ user_data'["gstnListConfirmed"] = JFalse
          /\ Truthy(user_data, "gstnList") => gstns_generated' = 0
          /\ "gstnList" \in DOMAIN user_data'
             => /\ "totalGstns" \in DOMAIN user_data'
                /\ user_data'["totalGstns"] = Len(user_data'["gstnList"])]_vars

\* ---------------------------------------------- dataExtracted and snapshot (C35)

\* the snapshot chat() works on before the response is merged: the supplied
\* one with _persona and, on entering the consent flow, the generated list
Prepared(ud_in) ==
    {init_gstn_list(determine_node(set_persona(ud_in), msg_count).ud,
                    determine_node(set_persona(ud_in), msg_count).ret, num_additional) :
        msg_count \in MsgCounts \ {0}, num_additional \in AdditionalGstns}

\* C35: at the end of every successful call the snapshot is the prepared
\* snapshot merged with exactly the returned dataExtracted.
C35_ExtractedMatchesSnapshot ==
    [][outcome' = "ok"
       => \E ud2 \in Prepared(user_data) : user_data' = Update(ud2, dataExtracted')]_vars

\* ---------------------------------------------- successive revisions (C36)

\* calculate_offer called again and again on one snapshot
NextRevisions == CalculateOffer

SpecRevisions == InitOfferSeq /\ [][NextRevisions]_vars

\* C36: after the initial offer, every revision approves at least the
\* amount of the offer computed immediately before it.
C36_RevisionScalesUp ==
    [][(/\ outcome = "offer"
        /\ DOMAIN initial_offer # {}
        /\ Requested > 0
        /\ outcome' = "offer"
        /\ offer'.is_revised \/ offer'.is_gstn_consent)
       => offer'.ret.approvedAmount >= offer.ret.approvedAmount]_vars

\* ---------------------------------------------- closure (C37)

\* the call only added fields to the snapshot
OnlyAdded ==
    /\ DOMAIN user_data \subseteq DOMAIN user_data'
    /\ \A k \in DOMAIN user_data : user_data'[k] = user_data[k]

\* C37: closure is terminal: while calls only add fields, a call that
\* follows one routed to NODE_CLOSURE is routed to NODE_CLOSURE.
C37_ClosureTerminal ==
    [][(current_node = "NODE_CLOSURE" /\ OnlyAdded) => current_node' = "NODE_CLOSURE"]_vars

====
